---------------------------- MODULE Spec2Model ----------------------------
(***************************************************************************)
(* A model of the WhatsApp-to-email bridge (src/src/index.ts).             *)
(*                                                                         *)
(* Texts are sequences of one-character strings, so that the regular       *)
(* expressions, trim, substring and replace of the source are computed     *)
(* character by character.  The generative model's answer to the parser's  *)
(* prompt is a sequence of JSON lexical tokens; JSON.parse is modelled as  *)
(* a recursive-descent parser over those tokens.                           *)
(*                                                                         *)
(* One action is one run of JavaScript between two suspension points: the  *)
(* synchronous code from the start of a handler (or from the settlement    *)
(* of the external call it awaits) up to the next external call it awaits, *)
(* or up to its return.                                                    *)
(***************************************************************************)
EXTENDS Naturals, Sequences, FiniteSets

VARIABLES
    source,   \* lifecycle of the Message Source (whatsappClient)
    h,        \* the handler invocations in flight, one record per slot
    pp,       \* a single call of parseWhatsAppMessage, observed on its own
    gp        \* a single call of generateEmailContent, observed on its own

vars == <<source, h, pp, gp>>

---------------------------------------------------------------------------
(* Bounds of the model *)

\* handler invocations (tool calls and 'message' callbacks) in flight at once
MaxHandlers == 2

\* longest run of white space put after "<address>:" and after "Subject:"
MaxWs == 2

---------------------------------------------------------------------------
(* Characters and texts *)

Max(S) == CHOOSE x \in S : \A y \in S : y <= x
Min(S) == CHOOSE x \in S : \A y \in S : x <= y

LowerLetters ==
    {"a","b","c","d","e","f","g","h","i","j","k","l","m",
     "n","o","p","q","r","s","t","u","v","w","x","y","z"}
UpperSeq ==
    <<"A","B","C","D","E","F","G","H","I","J","K","L","M",
      "N","O","P","Q","R","S","T","U","V","W","X","Y","Z">>
LowerSeq ==
    <<"a","b","c","d","e","f","g","h","i","j","k","l","m",
      "n","o","p","q","r","s","t","u","v","w","x","y","z">>
UpperLetters == {UpperSeq[k] : k \in DOMAIN UpperSeq}
Letters == LowerLetters \cup UpperLetters
Digits == {"0","1","2","3","4","5","6","7","8","9"}

\* [a-zA-Z0-9._%+-]
LocalChars == Letters \cup Digits \cup {".", "_", "%", "+", "-"}
\* [a-zA-Z0-9.-]
DomainChars == Letters \cup Digits \cup {".", "-"}
\* the characters of \s that the model's texts use
WhiteSpace == {" ", "\t", "\n", "\r"}
\* the characters that . does not match
LineTerminators == {"\n", "\r"}

\* the /i flag: letters are compared in lower case
ToLower(c) ==
    IF c \in UpperLetters
    THEN LowerSeq[CHOOSE k \in DOMAIN UpperSeq : UpperSeq[k] = c]
    ELSE c

\* String.prototype.trim
Trim(s) ==
    LET keep == {k \in DOMAIN s : s[k] \notin WhiteSpace}
    IN  IF keep = {} THEN <<>> ELSE SubSeq(s, Min(keep), Max(keep))

\* String.prototype.substring(from, to), 0-based, to exclusive
Substring(s, from, to) ==
    SubSeq(s, from + 1, IF to < Len(s) THEN to ELSE Len(s))

AllIn(s, lo, hi, C) == \A k \in lo..hi : s[k] \in C
NoneIn(s, lo, hi, C) == \A k \in lo..hi : s[k] \notin C

---------------------------------------------------------------------------
(* parseWhatsAppMessage, the strict pattern                               *)
(*   /([a-zA-Z0-9._%+-]+@[a-zA-Z0-9.-]+\.[a-zA-Z]{2,}):\s*(.+)/           *)
(* A backtracking matcher returns the match that starts leftmost and, at   *)
(* that start, takes every greedy quantifier as long as the rest of the    *)
(* pattern still allows, the quantifiers taken in order.                   *)

\* positions of "@" that end a run [..]+ started at i
AtSigns(s, i) ==
    {a \in (i + 1)..Len(s) : AllIn(s, i, a - 1, LocalChars) /\ s[a] = "@"}
\* positions of the "\." that ends a run [..]+ started after the "@" at a
Dots(s, a) ==
    {d \in (a + 2)..Len(s) : AllIn(s, a + 1, d - 1, DomainChars) /\ s[d] = "."}
\* positions of the ":" that follows [a-zA-Z]{2,} started after the dot at d
Colons(s, d) ==
    {e \in (d + 3)..Len(s) : AllIn(s, d + 1, e - 1, Letters) /\ s[e] = ":"}
\* first position of (.+) after \s* started behind position e
CaptureStarts(s, e) ==
    {f \in (e + 1)..Len(s) :
        AllIn(s, e + 1, f - 1, WhiteSpace) /\ s[f] \notin LineTerminators}
\* last position of a (.+) that starts at f
CaptureEnds(s, f) ==
    {g \in f..Len(s) : NoneIn(s, f, g, LineTerminators)}

ColonsOk(s, d) == {e \in Colons(s, d) : CaptureStarts(s, e) # {}}
DotsOk(s, a) == {d \in Dots(s, a) : ColonsOk(s, d) # {}}
AtSignsOk(s, i) == {a \in AtSigns(s, i) : DotsOk(s, a) # {}}

EmailRegexStarts(s) == {i \in DOMAIN s : AtSignsOk(s, i) # {}}

NoMatch == [matched |-> FALSE]

\* message.match(emailRegex): groups 1 and 2 of the first match
EmailRegexMatch(s) ==
    IF EmailRegexStarts(s) = {} THEN NoMatch
    ELSE LET i == Min(EmailRegexStarts(s))
             a == Max(AtSignsOk(s, i))
             d == Max(DotsOk(s, a))
             e == Max(ColonsOk(s, d))
             f == Max(CaptureStarts(s, e))
             g == Max(CaptureEnds(s, f))
         IN  [matched |-> TRUE,
              g1 |-> SubSeq(s, i, e - 1),
              g2 |-> SubSeq(s, f, g)]

---------------------------------------------------------------------------
(* JSON values and JSON.parse *)

JUndefined == [k |-> "undefined"]
JNull == [k |-> "null"]
JBool(b) == [k |-> "bool", b |-> b]
JNum(digits) == [k |-> "num", n |-> digits]
JStr(s) == [k |-> "str", s |-> s]
JObj(m) == [k |-> "obj", m |-> m]
JArr(items) == [k |-> "arr", items |-> items]

KeyRecipient == <<"r","e","c","i","p","i","e","n","t">>
KeyContext == <<"c","o","n","t","e","x","t">>

NoMembers == [x \in {} |-> JNull]
WithMember(m, key, val) ==
    [x \in DOMAIN m \cup {key} |-> IF x = key THEN val ELSE m[x]]

\* v.key of JavaScript, for a value v that is neither null nor undefined
Get(v, key) ==
    IF v.k = "obj" /\ key \in DOMAIN v.m THEN v.m[key] ELSE JUndefined

\* ToBoolean of JavaScript
Truthy(v) ==
    CASE v.k = "undefined" -> FALSE
      [] v.k = "null" -> FALSE
      [] v.k = "bool" -> v.b
      [] v.k = "num" -> v.n # <<"0">>
      [] v.k = "str" -> v.s # <<>>
      [] OTHER -> TRUE

\* lexical tokens of a JSON text
Tok(t, v) == [t |-> t, v |-> v]
P(t) == Tok(t, <<>>)

ParseFail == [ok |-> FALSE]
ParseOk(val, next) == [ok |-> TRUE, val |-> val, next |-> next]

RECURSIVE JValue(_, _), JMembers(_, _, _), JElements(_, _, _)
\* value at token i
JValue(t, i) ==
    IF i > Len(t) THEN ParseFail
    ELSE CASE t[i].t = "null" -> ParseOk(JNull, i + 1)
           [] t[i].t = "true" -> ParseOk(JBool(TRUE), i + 1)
           [] t[i].t = "false" -> ParseOk(JBool(FALSE), i + 1)
           [] t[i].t = "num" -> ParseOk(JNum(t[i].v), i + 1)
           [] t[i].t = "str" -> ParseOk(JStr(t[i].v), i + 1)
           [] t[i].t = "{" ->
                IF i + 1 <= Len(t) /\ t[i + 1].t = "}"
                THEN ParseOk(JObj(NoMembers), i + 2)
                ELSE JMembers(t, i + 1, NoMembers)
           [] t[i].t = "[" ->
                IF i + 1 <= Len(t) /\ t[i + 1].t = "]"
                THEN ParseOk(JArr(<<>>), i + 2)
                ELSE JElements(t, i + 1, <<>>)
           [] OTHER -> ParseFail
\* "key" : value, then "," and more members, or "}"
JMembers(t, i, m) ==
    IF i + 1 > Len(t) \/ t[i].t # "str" \/ t[i + 1].t # ":" THEN ParseFail
    ELSE LET r == JValue(t, i + 2)
         IN  IF ~r.ok \/ r.next > Len(t) THEN ParseFail
             ELSE IF t[r.next].t = "}"
                  THEN ParseOk(JObj(WithMember(m, t[i].v, r.val)), r.next + 1)
             ELSE IF t[r.next].t = ","
                  THEN JMembers(t, r.next + 1, WithMember(m, t[i].v, r.val))
             ELSE ParseFail
\* value, then "," and more elements, or "]"
JElements(t, i, items) ==
    LET r == JValue(t, i)
    IN  IF ~r.ok \/ r.next > Len(t) THEN ParseFail
        ELSE IF t[r.next].t = "]"
             THEN ParseOk(JArr(Append(items, r.val)), r.next + 1)
        ELSE IF t[r.next].t = ","
             THEN JElements(t, r.next + 1, Append(items, r.val))
        ELSE ParseFail

\* JSON.parse(text): the value, or a thrown SyntaxError
JSONParse(t) ==
    LET r == JValue(t, 1)
    IN  IF r.ok /\ r.next = Len(t) + 1
        THEN [threw |-> FALSE, val |-> r.val]
        ELSE [threw |-> TRUE, message |-> "Unexpected token in JSON"]

---------------------------------------------------------------------------
(* parseWhatsAppMessage *)

\* what an awaited external call settles to
Resolved(value) == [ok |-> TRUE, value |-> value]
Rejected(message) == [ok |-> FALSE, message |-> message]

\* StrictResult with the two trim() calls left out
StrictResultUntrimmed(match) ==
    JObj(WithMember(WithMember(NoMembers, KeyRecipient, JStr(match.g1)),
                    KeyContext, JStr(match.g2)))

\* the strict branch: { recipient: match[1].trim(), context: match[2].trim() }
StrictResult(match) ==
    JObj(WithMember(WithMember(NoMembers, KeyRecipient, JStr(Trim(match.g1))),
                    KeyContext, JStr(Trim(match.g2))))

\* parsed.recipient && parsed.context ? parsed : null
\* (reading a property of null throws a TypeError)
PickParsed(parsed) ==
    IF parsed.k = "null"
    THEN [threw |-> TRUE, message |-> "Cannot read properties of null"]
    ELSE [threw |-> FALSE,
          val |-> IF Truthy(Get(parsed, KeyRecipient))
                     /\ Truthy(Get(parsed, KeyContext))
                  THEN parsed ELSE JNull]

\* the try block of the fallback, from the settlement of generateContent on
FallbackTry(settled) ==
    IF ~settled.ok THEN [threw |-> TRUE, message |-> settled.message]
    ELSE LET parsed == JSONParse(settled.value)
         IN  IF parsed.threw THEN parsed ELSE PickParsed(parsed.val)

\* FallbackResult without the catch block
FallbackResultUncaught(settled) == FallbackTry(settled)

\* try { ... } catch (error) { return null }
FallbackResult(settled) ==
    LET r == FallbackTry(settled)
    IN  IF r.threw THEN [threw |-> FALSE, val |-> JNull] ELSE r

\* the synchronous head of parseWhatsAppMessage: a result, or the model call
ParseHead(message) ==
    LET match == EmailRegexMatch(message)
    IN  IF match.matched
        THEN [callModel |-> FALSE, val |-> StrictResult(match)]
        ELSE [callModel |-> TRUE]

---------------------------------------------------------------------------
(* generateEmailContent *)

SubjectLiteral == <<"s","u","b","j","e","c","t",":">>
RegardingPrefix == <<"R","e","g","a","r","d","i","n","g",":"," ">>
Ellipsis == <<".",".",".">>
\* context.substring(0, 50)
SubjectFallbackLen == 50

\* "Subject:" in any letter case at positions i .. i+7
LiteralAt(s, i) ==
    /\ i + Len(SubjectLiteral) - 1 <= Len(s)
    /\ \A k \in DOMAIN SubjectLiteral : ToLower(s[i + k - 1]) = SubjectLiteral[k]

SubjectRegexStarts(s) ==
    {i \in DOMAIN s :
        LiteralAt(s, i) /\ CaptureStarts(s, i + Len(SubjectLiteral) - 1) # {}}

\* the first match of /Subject:\s*(.+)/i : its start, its group 1 and its end
SubjectRegexMatch(s) ==
    IF SubjectRegexStarts(s) = {} THEN NoMatch
    ELSE LET i == Min(SubjectRegexStarts(s))
             f == Max(CaptureStarts(s, i + Len(SubjectLiteral) - 1))
             g == Max(CaptureEnds(s, f))
         IN  [matched |-> TRUE, start |-> i, g1 |-> SubSeq(s, f, g), end |-> g]

\* content.replace(/Subject:\s*.+\n*/i, ''): the first match cut out
RemoveSubjectLine(s) ==
    LET m == SubjectRegexMatch(s)
    IN  IF ~m.matched THEN s
        ELSE LET stops == {x \in m.end..Len(s) :
                              \A k \in (m.end + 1)..x : s[k] = "\n"}
             IN  SubSeq(s, 1, m.start - 1) \o SubSeq(s, Max(stops) + 1, Len(s))

TypeErrorSubstring == "context.substring is not a function"

\* the subject: group 1 trimmed, or the fallback built from the context
\* (context.substring exists only when context is a string)
SubjectOf(context, content) ==
    LET m == SubjectRegexMatch(content)
    IN  IF m.matched THEN [threw |-> FALSE, val |-> Trim(m.g1)]
        ELSE IF context.k # "str"
             THEN [threw |-> TRUE, message |-> TypeErrorSubstring]
        ELSE [threw |-> FALSE,
              val |-> RegardingPrefix
                      \o Substring(context.s, 0, SubjectFallbackLen)
                      \o Ellipsis]

\* generateEmailContent after its model call resolved with content
ExtractContent(context, content) ==
    LET subject == SubjectOf(context, content)
    IN  IF subject.threw THEN subject
        ELSE [threw |-> FALSE,
              subject |-> subject.val,
              body |-> Trim(RemoveSubjectLine(content))]

---------------------------------------------------------------------------
(* Payloads, replies and mail options.  A text built from a template is a  *)
(* record: the template's fixed words and the values put into it.          *)

\* result.body.substring(0, 100)
PreviewLen == 100

SentPayload(emailData, gen) ==
    [type |-> "text", lit |-> "Email sent successfully!",
     recipient |-> Get(emailData, KeyRecipient),
     subject |-> gen.subject,
     preview |-> Substring(gen.body, 0, PreviewLen)]
ParseMissPayload ==
    [type |-> "text",
     lit |-> "Could not parse WhatsApp message. Expected format: 'recipient@email.com: context'"]
ErrorPayload(message) ==
    [type |-> "text", lit |-> "Error: ", message |-> message]
ListenerStartedPayload ==
    [type |-> "text",
     lit |-> "WhatsApp listener started. Scan the QR code to connect."]
ListenerErrorPayload(message) ==
    [type |-> "text", lit |-> "Error starting WhatsApp: ", message |-> message]

SentReply(emailData, gen) ==
    [lit |-> "Email sent successfully to",
     recipient |-> Get(emailData, KeyRecipient),
     subject |-> gen.subject]
ParseMissReply ==
    [lit |-> "Could not parse your message. Please use format: 'recipient@email.com: your context here'"]
ErrorReply(message) ==
    [lit |-> "Error sending email: ", message |-> message]

\* MailOptions with the context taken for the address
MailOptionsToContext(emailData, gen) ==
    [to |-> Get(emailData, KeyContext),
     subject |-> gen.subject,
     text |-> gen.body]

\* mailOptions of sendEnhancedEmail (from and html are not modelled)
MailOptions(emailData, gen) ==
    [to |-> Get(emailData, KeyRecipient),
     subject |-> gen.subject,
     text |-> gen.body]

---------------------------------------------------------------------------
(* Handler invocations *)

Handlers == 1..MaxHandlers

NoOutput == [type |-> "none"]
NoContent == [set |-> FALSE]

Idle ==
    [kind |-> "idle", name |-> "", args |-> JUndefined, pc |-> "idle",
     msg |-> <<>>, emailData |-> JUndefined, gen |-> NoContent,
     calls |-> <<>>, mails |-> <<>>, replies |-> <<>>, inCatch |-> FALSE,
     out |-> NoOutput]

Finished == {"returned", "threw", "done", "escaped"}

\* await of an external call: the call is issued and the handler suspends
AwaitCall(hr, svc) ==
    [hr EXCEPT !.calls = Append(@, [svc |-> svc, st |-> "pending",
                                    message |-> ""]),
               !.pc = svc]
\* the awaited call settled
SettleCall(hr, settled) ==
    [hr EXCEPT !.calls[Len(hr.calls)] =
                   IF settled.ok THEN [@ EXCEPT !.st = "ok"]
                   ELSE [@ EXCEPT !.st = "rejected",
                                  !.message = settled.message]]

Return(hr, payload) == [hr EXCEPT !.pc = "returned", !.out = payload]
Throw(hr, message, detail) ==
    [hr EXCEPT !.pc = "threw",
               !.out = [type |-> "error", message |-> message,
                        detail |-> detail]]

(* handleWhatsAppMessage: its replies and its catch block *)
HandleReply(hr, text, inCatch) ==
    AwaitCall([hr EXCEPT !.replies = Append(@, text), !.inCatch = inCatch],
              "reply")
HandleCatch(hr, message) == HandleReply(hr, ErrorReply(message), TRUE)
\* a reply settled: done, or the rejection is thrown at the await
AfterReply(hr, settled) ==
    IF settled.ok THEN [hr EXCEPT !.pc = "done"]
    ELSE IF ~hr.inCatch THEN HandleCatch(hr, settled.message)
    ELSE [hr EXCEPT !.pc = "escaped",
                    !.out = [type |-> "error", message |-> settled.message,
                             detail |-> ""]]

\* ProcessCatch that throws the error on
ProcessCatchRethrows(hr, message) == Throw(hr, message, "")

(* processWhatsAppMessage: its catch block *)
ProcessCatch(hr, message) == Return(hr, ErrorPayload(message))

\* an exception thrown inside the pipeline reaches the caller's catch block
Caught(hr, message) ==
    IF hr.kind = "tool" THEN ProcessCatch(hr, message)
    ELSE HandleCatch(hr, message)

\* after sendEnhancedEmail returned { subject, body }
ProcessSent(hr) == Return(hr, SentPayload(hr.emailData, hr.gen))
HandleSent(hr) == HandleReply(hr, SentReply(hr.emailData, hr.gen), FALSE)

\* AfterSendMail that sends once more after a rejection
AfterSendMailRetries(hr, settled) ==
    IF ~settled.ok /\ Len(hr.mails) < 2
    THEN AwaitCall([hr EXCEPT !.mails = Append(@, hr.mails[1])], "mail")
    ELSE IF ~settled.ok THEN Caught(hr, settled.message)
    ELSE IF hr.kind = "tool" THEN ProcessSent(hr) ELSE HandleSent(hr)

(* sendEnhancedEmail *)
\* after await this.emailTransporter.sendMail(mailOptions)
AfterSendMail(hr, settled) ==
    IF ~settled.ok THEN Caught(hr, settled.message)
    ELSE IF hr.kind = "tool" THEN ProcessSent(hr) ELSE HandleSent(hr)

\* AfterGenerate with sendMail(mailOptions) not awaited
AfterGenerateNoAwait(hr, settled) ==
    IF ~settled.ok THEN Caught(hr, settled.message)
    ELSE LET g == ExtractContent(Get(hr.emailData, KeyContext), settled.value)
             sent == AwaitCall(
                       [hr EXCEPT !.gen = [set |-> TRUE, subject |-> g.subject,
                                           body |-> g.body],
                                  !.mails = Append(@, MailOptions(hr.emailData, g))],
                       "mail")
         IN  IF g.threw THEN Caught(hr, g.message)
             ELSE IF hr.kind = "tool" THEN ProcessSent(sent) ELSE HandleSent(sent)

\* generateEmailContent after await this.model.generateContent(prompt), then
\* sendEnhancedEmail up to await sendMail(mailOptions)
AfterGenerate(hr, settled) ==
    IF ~settled.ok THEN Caught(hr, settled.message)
    ELSE LET g == ExtractContent(Get(hr.emailData, KeyContext), settled.value)
         IN  IF g.threw THEN Caught(hr, g.message)
             ELSE AwaitCall(
                    [hr EXCEPT !.gen = [set |-> TRUE, subject |-> g.subject,
                                        body |-> g.body],
                               !.mails = Append(@, MailOptions(hr.emailData, g))],
                    "mail")

\* sendEnhancedEmail up to the model call of generateEmailContent
SendEnhancedEmail(hr) == AwaitCall(hr, "genModel")

\* ProcessParsed without the test of emailData
ProcessParsedUnchecked(hr) == SendEnhancedEmail(hr)

\* processWhatsAppMessage after the parser returned
ProcessParsed(hr) ==
    IF ~Truthy(hr.emailData) THEN Return(hr, ParseMissPayload)
    ELSE SendEnhancedEmail(hr)
\* handleWhatsAppMessage after the parser returned
HandleParsed(hr) ==
    IF Truthy(hr.emailData) THEN SendEnhancedEmail(hr)
    ELSE HandleReply(hr, ParseMissReply, FALSE)

\* const emailData = await this.parseWhatsAppMessage(...)
AfterParse(hr, parsed) ==
    IF parsed.threw THEN Caught(hr, parsed.message)
    ELSE LET hr2 == [hr EXCEPT !.emailData = parsed.val]
         IN  IF hr.kind = "tool" THEN ProcessParsed(hr2) ELSE HandleParsed(hr2)

\* parseWhatsAppMessage after await this.model.generateContent(prompt)
AfterParserModel(hr, settled) == AfterParse(hr, FallbackResult(settled))

\* parseWhatsAppMessage up to its return or its model call
ParseWhatsAppMessage(hr) ==
    LET head == ParseHead(hr.msg)
    IN  IF head.callModel THEN AwaitCall(hr, "parserModel")
        ELSE AfterParse(hr, [threw |-> FALSE, val |-> head.val])

(* startWhatsAppListener *)
StartWhatsAppListener(hr) == AwaitCall(hr, "initialize")
AfterInitialize(hr, settled) ==
    IF settled.ok THEN Return(hr, ListenerStartedPayload)
    ELSE Return(hr, ListenerErrorPayload(settled.message))

(* the CallToolRequestSchema handler *)
SendTool == "send_email_from_whatsapp"
ListenerTool == "start_whatsapp_listener"
KeyWhatsappMessage ==
    <<"w","h","a","t","s","a","p","p","M","e","s","s","a","g","e">>

\* !args || typeof args.whatsappMessage !== 'string'
InvalidArguments(args) ==
    ~Truthy(args) \/ Get(args, KeyWhatsappMessage).k # "str"

CallToolRequest(hr, name, args) ==
    LET req == [hr EXCEPT !.kind = "tool", !.name = name, !.args = args]
    IN  IF name = SendTool
        THEN IF InvalidArguments(args)
             THEN Throw(req, "Invalid arguments: 'whatsappMessage' must be a string.", "")
             ELSE ParseWhatsAppMessage(
                    [req EXCEPT !.msg = Get(args, KeyWhatsappMessage).s])
        ELSE IF name = ListenerTool THEN StartWhatsAppListener(req)
        ELSE Throw(req, "Unknown tool: ", name)

\* the 'message' subscription: await this.handleWhatsAppMessage(message)
OnMessage(hr, body) ==
    ParseWhatsAppMessage([hr EXCEPT !.kind = "event", !.msg = body])

---------------------------------------------------------------------------
(* Inputs *)

Addr == <<"a","@","b",".","c","o">>
Hi == <<"h","i">>
Body == <<"B","o","d","y">>
SubjectWord == <<"S","u","b","j","e","c","t",":">>

\* all runs of at most n characters of C
Runs(C, n) == UNION {[1..k -> C] : k \in 0..n}

\* "a@b.co: hi" (strict) and "a@b.co hi" (left to the model)
MsgStrict == Addr \o <<":", " ">> \o Hi
MsgLoose == Addr \o <<" ">> \o Hi
InboundMessages == {MsgStrict, MsgLoose}

Request(name, args) == [name |-> name, args |-> args]
MessageArgs(value) == JObj(WithMember(NoMembers, KeyWhatsappMessage, value))
ToolRequests ==
    {Request(SendTool, MessageArgs(JStr(m))) : m \in InboundMessages}
    \cup {Request(SendTool, JUndefined),
          Request(SendTool, JObj(NoMembers)),
          Request(SendTool, MessageArgs(JNum(<<"4","2">>))),
          Request(ListenerTool, JObj(NoMembers)),
          Request("delete_all_mail", JObj(NoMembers))}

\* a JSON object text with the given recipient and context value tokens
\* (<<>> for a member left out)
Member(key, value) ==
    IF value = <<>> THEN <<>> ELSE <<Tok("str", key), P(":")>> \o value
ObjectText(recipient, context) ==
    <<P("{")>> \o Member(KeyRecipient, recipient)
    \o (IF recipient # <<>> /\ context # <<>> THEN <<P(",")>> ELSE <<>>)
    \o Member(KeyContext, context) \o <<P("}")>>

\* what the model answers to the parser's prompt, in the pipeline
ParserAnswers ==
    {<<P("null")>>,
     ObjectText(<<Tok("str", Addr)>>, <<Tok("str", Hi)>>)}
ParserModelOutcomes ==
    {Rejected("model unavailable")} \cup {Resolved(t) : t \in ParserAnswers}

\* what the model answers to the generator's prompt, in the pipeline
GeneratorAnswers ==
    {SubjectWord \o <<" ">> \o Hi \o <<"\n", "\n">> \o Body, Body}
GeneratorOutcomes ==
    {Rejected("quota exceeded")} \cup {Resolved(c) : c \in GeneratorAnswers}

MailOutcomes == {Resolved(<<>>), Rejected("SMTP connection refused")}
ReplyOutcomes == {Resolved(<<>>), Rejected("chat session closed")}
InitializeOutcomes == {Resolved(<<>>), Rejected("browser launch failed")}

---------------------------------------------------------------------------
(* The server: tool calls, inbound messages, settlements *)

PPIdle == [pc |-> "idle"]
GPIdle == [pc |-> "idle"]

\* after new WhatsAppEmailMCPServer(config) and run()
Init ==
    /\ source = "idle"
    /\ h = [i \in Handlers |-> Idle]
    /\ pp = PPIdle
    /\ gp = GPIdle

\* a tools/call request arrives and runs to its first await or to its end;
\* start_whatsapp_listener calls whatsappClient.initialize()
CallTool(i) ==
    /\ h[i].kind = "idle"
    /\ \E r \in ToolRequests :
         /\ h' = [h EXCEPT ![i] = CallToolRequest(h[i], r.name, r.args)]
         /\ source' = IF r.name = ListenerTool /\ source = "idle"
                      THEN "starting" ELSE source
    /\ UNCHANGED <<pp, gp>>

\* the source emits 'qr': the pairing code is printed
SourceQr ==
    /\ source = "starting"
    /\ source' = "pairing"
    /\ UNCHANGED <<h, pp, gp>>

\* the source emits 'ready'
SourceReady ==
    /\ source \in {"starting", "pairing"}
    /\ source' = "ready"
    /\ UNCHANGED <<h, pp, gp>>

\* the connected source emits 'message'; the callback starts at once
Deliver(i) ==
    /\ source = "ready"
    /\ h[i].kind = "idle"
    /\ \E m \in InboundMessages : h' = [h EXCEPT ![i] = OnMessage(h[i], m)]
    /\ UNCHANGED <<source, pp, gp>>

ParserModelSettles(i) ==
    /\ h[i].pc = "parserModel"
    /\ \E s \in ParserModelOutcomes :
         h' = [h EXCEPT ![i] = AfterParserModel(SettleCall(h[i], s), s)]
    /\ UNCHANGED <<source, pp, gp>>

GeneratorModelSettles(i) ==
    /\ h[i].pc = "genModel"
    /\ \E s \in GeneratorOutcomes :
         h' = [h EXCEPT ![i] = AfterGenerate(SettleCall(h[i], s), s)]
    /\ UNCHANGED <<source, pp, gp>>

SendMailSettles(i) ==
    /\ h[i].pc = "mail"
    /\ \E s \in MailOutcomes :
         h' = [h EXCEPT ![i] = AfterSendMail(SettleCall(h[i], s), s)]
    /\ UNCHANGED <<source, pp, gp>>

ReplySettles(i) ==
    /\ h[i].pc = "reply"
    /\ \E s \in ReplyOutcomes :
         h' = [h EXCEPT ![i] = AfterReply(SettleCall(h[i], s), s)]
    /\ UNCHANGED <<source, pp, gp>>

\* InitializeSettles for an initialize() that settles only once the source
\* is ready
InitializeSettlesWhenReady(i) ==
    /\ source = "ready"
    /\ h[i].pc = "initialize"
    /\ \E s \in InitializeOutcomes :
         h' = [h EXCEPT ![i] = AfterInitialize(SettleCall(h[i], s), s)]
    /\ UNCHANGED <<source, pp, gp>>

\* initialize() settles; the model does not tie this to 'qr' or 'ready'
InitializeSettles(i) ==
    /\ h[i].pc = "initialize"
    /\ \E s \in InitializeOutcomes :
         h' = [h EXCEPT ![i] = AfterInitialize(SettleCall(h[i], s), s)]
    /\ UNCHANGED <<source, pp, gp>>

\* a handler that returned, threw or replied is gone; its slot is free again
\* (a rejection that escaped the 'message' callback stays on record)
Forget(i) ==
    /\ h[i].pc \in Finished \ {"escaped"}
    /\ h' = [h EXCEPT ![i] = Idle]
    /\ UNCHANGED <<source, pp, gp>>

Next ==
    \/ SourceQr
    \/ SourceReady
    \/ \E i \in Handlers : CallTool(i)
    \/ \E i \in Handlers : Deliver(i)
    \/ \E i \in Handlers : ParserModelSettles(i)
    \/ \E i \in Handlers : GeneratorModelSettles(i)
    \/ \E i \in Handlers : SendMailSettles(i)
    \/ \E i \in Handlers : ReplySettles(i)
    \/ \E i \in Handlers : InitializeSettles(i)
    \/ \E i \in Handlers : Forget(i)

Spec == Init /\ [][Next]_vars

---------------------------------------------------------------------------
(* parseWhatsAppMessage on its own, over a family of messages and of model *)
(* answers                                                                 *)

\* messages: prefix, address, separator, white space, text, tail
Prefixes == {<<>>, <<"x", " ">>}
ValidAddresses ==
    {Addr,
     <<"a",".","b","+","1","@","b","-","c",".","d",".","o","r","g">>}
NearAddresses ==
    {<<"a","@","b",".","c">>,            \* one-letter top-level domain
     <<"a","@","b">>,                    \* no dot
     <<"a","b",".","c","o">>,            \* no @
     <<"@","b",".","c","o">>,            \* no local part
     <<"a","@","b",".","c","0">>}        \* a digit in the top-level domain
Separators == {<<":">>, <<>>}
WsRuns == Runs({" ", "\n"}, MaxWs)
NewlineRuns == Runs({"\n"}, MaxWs)
PlainTexts == {Hi, <<"h","i"," ","y","o">>}
Tails == {<<>>, <<" ">>, <<"\n","y","o">>}

ProbeMessages ==
    {p \o a \o c \o w \o t \o z :
        p \in Prefixes, a \in ValidAddresses \cup NearAddresses,
        c \in Separators, w \in WsRuns, t \in PlainTexts \cup {<<>>},
        z \in Tails}

\* answers: JSON object texts, whole and damaged, and other JSON values
ValueTokens ==
    {<<Tok("str", Addr)>>, <<Tok("str", Hi)>>, <<Tok("str", <<>>)>>,
     <<P("null")>>, <<Tok("num", <<"0">>)>>, <<Tok("num", <<"5">>)>>}
OptionalValueTokens == ValueTokens \cup {<<>>}
ObjectTexts ==
    {ObjectText(r, c) : r \in OptionalValueTokens, c \in OptionalValueTokens}
\* a Markdown code fence around the answer
Fence == <<Tok("junk", <<"j","s","o","n">>)>>
DamagedTexts ==
    {Fence \o t \o Fence : t \in ObjectTexts}
    \cup {SubSeq(t, 1, Len(t) - 1) : t \in ObjectTexts}
    \cup {SubSeq(t, 1, Len(t) - 1) \o <<P(","), P("}")>> : t \in ObjectTexts}
    \cup {<<>>}
OtherValueTexts ==
    {<<P("null")>>, <<P("true")>>, <<Tok("num", <<"5">>)>>,
     <<Tok("str", Addr)>>, <<P("["), P("]")>>,
     <<P("[")>> \o ObjectText(<<Tok("str", Addr)>>, <<Tok("str", Hi)>>)
        \o <<P("]")>>}
ProbeParserOutcomes ==
    {Rejected("model unavailable")}
    \cup {Resolved(t) : t \in ObjectTexts \cup DamagedTexts \cup OtherValueTexts}

NoSettlement == [ok |-> FALSE, message |-> "", none |-> TRUE]

ProbeStart(m) ==
    [pc |-> "start", msg |-> m, calls |-> 0, settled |-> NoSettlement,
     result |-> [threw |-> FALSE, val |-> JUndefined]]

InitParse ==
    /\ source = "idle"
    /\ h = [i \in Handlers |-> Idle]
    /\ gp = GPIdle
    /\ pp \in {ProbeStart(m) : m \in ProbeMessages}

\* the call runs to its return or to its model call
ProbeParse ==
    /\ pp.pc = "start"
    /\ LET head == ParseHead(pp.msg)
       IN  pp' = IF head.callModel
                 THEN [pp EXCEPT !.pc = "model", !.calls = @ + 1]
                 ELSE [pp EXCEPT !.pc = "done",
                                 !.result = [threw |-> FALSE, val |-> head.val]]
    /\ UNCHANGED <<source, h, gp>>

\* the model call settles, in one of the given ways, and the call runs to
\* its return
ProbeSettles(outcomes) ==
    /\ pp.pc = "model"
    /\ \E s \in outcomes :
         pp' = [pp EXCEPT !.pc = "done", !.settled = s,
                          !.result = FallbackResult(s)]
    /\ UNCHANGED <<source, h, gp>>

\* the family of messages, each with the answers of the pipeline
ProbeParserModelSettles == ProbeSettles(ParserModelOutcomes)
NextParse == ProbeParse \/ ProbeParserModelSettles
SpecParse == InitParse /\ [][NextParse]_vars

\* messages the strict pattern misses, each with the family of answers
LooseMessages ==
    {MsgLoose, Addr \o <<":">>, <<"m","a","i","l"," ">> \o Hi}
InitFallback ==
    /\ source = "idle"
    /\ h = [i \in Handlers |-> Idle]
    /\ gp = GPIdle
    /\ pp \in {ProbeStart(m) : m \in LooseMessages}
ProbeFallbackSettles == ProbeSettles(ProbeParserOutcomes)
NextFallback == ProbeParse \/ ProbeFallbackSettles
SpecFallback == InitFallback /\ [][NextFallback]_vars

---------------------------------------------------------------------------
(* generateEmailContent on its own, over a family of contexts and of model *)
(* answers                                                                 *)

\* a context longer than the 50 characters the fallback subject keeps
LongContextLen == 60
LongContext == [k \in 1..LongContextLen |-> "z"]
ProbeContexts == {Hi, LongContext, <<>>}

SubjectWords ==
    {SubjectWord, <<"s","U","B","J","E","C","T",":">>,
     <<"S","u","b","j",":">>, <<>>}
Leads == {<<>>, <<"D","e","a","r","\n">>}
Lines == {<<>>, Hi, <<"H","i"," ","y","o">>}
Rests == {<<>>, <<" ">>, <<"\n","\n">> \o Body}

ProbeContents ==
    {l \o s \o w \o t \o r :
        l \in Leads, s \in SubjectWords, w \in WsRuns, t \in Lines,
        r \in Rests}
ProbeGeneratorOutcomes ==
    {Rejected("quota exceeded")} \cup {Resolved(c) : c \in ProbeContents}

InitGen ==
    /\ source = "idle"
    /\ h = [i \in Handlers |-> Idle]
    /\ pp = PPIdle
    /\ gp \in {[pc |-> "start", context |-> c, settled |-> NoSettlement,
                result |-> [threw |-> FALSE, subject |-> <<>>, body |-> <<>>]] :
               c \in ProbeContexts}

\* the call builds its prompt and awaits the model
ProbeGenerate ==
    /\ gp.pc = "start"
    /\ gp' = [gp EXCEPT !.pc = "model"]
    /\ UNCHANGED <<source, h, pp>>

\* the model call settles and the call runs to its return or throws
ProbeGeneratorSettles ==
    /\ gp.pc = "model"
    /\ \E s \in ProbeGeneratorOutcomes :
         gp' = [gp EXCEPT
                  !.pc = "done", !.settled = s,
                  !.result = IF s.ok
                             THEN ExtractContent(JStr(gp.context), s.value)
                             ELSE [threw |-> TRUE, message |-> s.message]]
    /\ UNCHANGED <<source, h, pp>>

NextGen == ProbeGenerate \/ ProbeGeneratorSettles

SpecGen == InitGen /\ [][NextGen]_vars

---------------------------------------------------------------------------
(* Properties *)

CallsTo(hr, svc) == {k \in DOMAIN hr.calls : hr.calls[k].svc = svc}
RejectedCalls(hr) == {k \in DOMAIN hr.calls : hr.calls[k].st = "rejected"}
PipelineCalls(hr) ==
    {k \in DOMAIN hr.calls : hr.calls[k].svc \in {"parserModel", "genModel", "mail"}}
Rank(svc) ==
    CASE svc = "parserModel" -> 1
      [] svc = "genModel" -> 2
      [] svc = "mail" -> 3
      [] OTHER -> 4

\* a tools/call request for send_email_from_whatsapp with a string argument
IsSendCall(hr) ==
    /\ hr.kind = "tool"
    /\ hr.name = SendTool
    /\ hr.args.k = "obj"
    /\ KeyWhatsappMessage \in DOMAIN hr.args.m
    /\ hr.args.m[KeyWhatsappMessage].k = "str"

\* the parser yielded an Email Request: an object with two strings
HasEmailRequest(hr) ==
    /\ hr.emailData.k = "obj"
    /\ Get(hr.emailData, KeyRecipient).k = "str"
    /\ Get(hr.emailData, KeyContext).k = "str"

\* C1: a send_email_from_whatsapp call whose message was parsed and whose
\* generator call and mail delivery succeeded returns the success text with
\* the parsed recipient and the generated subject, and has invoked the Mail
\* Sender exactly once, with that recipient as 'to' and that subject.
C1_SentOnceAndReported ==
    \A i \in Handlers :
        LET hr == h[i]
        IN  (/\ IsSendCall(hr)
             /\ hr.pc = "returned"
             /\ HasEmailRequest(hr)
             /\ RejectedCalls(hr) = {})
            => /\ hr.out.type = "text"
               /\ hr.out.lit = "Email sent successfully!"
               /\ hr.out.recipient = hr.emailData.m[KeyRecipient]
               /\ hr.out.recipient = JStr(Addr)
               /\ Cardinality(CallsTo(hr, "genModel")) = 1
               /\ hr.gen.set
               /\ hr.out.subject = hr.gen.subject
               /\ Cardinality(CallsTo(hr, "mail")) = 1
               /\ Len(hr.mails) = 1
               /\ hr.mails[1].to = hr.emailData.m[KeyRecipient]
               /\ hr.mails[1].subject = hr.gen.subject

C1_Witness ==
    \E i \in Handlers :
        /\ IsSendCall(h[i])
        /\ h[i].pc = "returned"
        /\ h[i].msg = MsgStrict
        /\ h[i].out.type = "text"
        /\ h[i].out.lit = "Email sent successfully!"
        /\ h[i].out.subject = Hi
        /\ Len(h[i].mails) = 1
        /\ h[i].calls[Len(h[i].calls)] = [svc |-> "mail", st |-> "ok", message |-> ""]

\* C2: a send_email_from_whatsapp call whose message the parser cannot parse
\* returns the text that states the expected format as a normal payload,
\* and never invokes the Content Generator or the Mail Sender.
C2_ParseMissSendsNothing ==
    \A i \in Handlers :
        LET hr == h[i]
        IN  (IsSendCall(hr)
             /\ (hr.emailData.k = "null"
                 \/ \E k \in CallsTo(hr, "parserModel") :
                       hr.calls[k].st = "rejected"))
            => /\ hr.pc = "returned"
               /\ hr.out = ParseMissPayload
               /\ CallsTo(hr, "genModel") = {}
               /\ CallsTo(hr, "mail") = {}
               /\ hr.mails = <<>>

C2_Witness ==
    \E i \in Handlers :
        /\ IsSendCall(h[i])
        /\ h[i].msg = MsgLoose
        /\ h[i].calls = <<[svc |-> "parserModel", st |-> "ok", message |-> ""]>>
        /\ h[i].pc = "returned"
        /\ h[i].out = ParseMissPayload

\* C3: a tools/call request throws to the protocol layer exactly when its
\* name is unknown ("Unknown tool") or it is send_email_from_whatsapp without
\* a string whatsappMessage; every other request returns a text payload, and
\* after a rejection of the generator's model call, of the Mail Sender or of
\* initialize() that payload carries the rejection's description.
C3_ThrowsOnlyOnProtocolViolation ==
    \A i \in Handlers :
        LET hr == h[i]
            unknown == hr.name \notin {SendTool, ListenerTool}
            violation == unknown \/ (hr.name = SendTool /\ ~IsSendCall(hr))
        IN  hr.kind = "tool"
            => /\ (hr.pc = "threw") <=> violation
               /\ hr.pc \notin {"escaped", "done"}
               /\ (hr.pc = "threw" /\ unknown)
                  => (hr.out.message = "Unknown tool: " /\ hr.out.detail = hr.name)
               /\ hr.pc = "returned" => hr.out.type = "text"
               /\ \A k \in RejectedCalls(hr) :
                     hr.calls[k].svc \in {"genModel", "mail", "initialize"}
                     => /\ hr.pc = "returned"
                        /\ hr.out.lit \in {"Error: ", "Error starting WhatsApp: "}
                        /\ hr.out.message = hr.calls[k].message

C3_Witness ==
    \E i \in Handlers :
        /\ IsSendCall(h[i])
        /\ h[i].pc = "returned"
        /\ Len(h[i].calls) > 0
        /\ h[i].calls[Len(h[i].calls)].svc = "mail"
        /\ h[i].calls[Len(h[i].calls)].st = "rejected"
        /\ h[i].out = ErrorPayload("SMTP connection refused")

\* C4: handling an inbound message always ends with a reply delivered in the
\* channel, and no exception escapes handleWhatsAppMessage, whatever calls
\* reject (the reply call included).
C4_AlwaysRepliesNeverEscapes ==
    \A i \in Handlers :
        (h[i].kind = "event" /\ h[i].pc \in Finished)
        => /\ h[i].pc = "done"
           /\ h[i].calls[Len(h[i].calls)].svc = "reply"
           /\ h[i].calls[Len(h[i].calls)].st = "ok"

ActiveEvents == {i \in Handlers : h[i].kind = "event" /\ h[i].pc \notin Finished}

\* C5 as stated: handling of inbound messages never overlaps; no step of a
\* second message starts before the reply to the first has completed.
C5_HandlingNeverOverlaps == Cardinality(ActiveEvents) <= 1

\* C5 as amended: the steps of one inbound message are issued in the order
\* parse, generate, send, reply, each only after the one before has settled
\* (a handler in flight is suspended at its last call, the only pending one);
\* handling of different messages is not serialized.
C5_OwnStepsInOrder ==
    \A i \in Handlers :
        LET hr == h[i]
        IN  hr.kind = "event"
            => /\ \A k \in DOMAIN hr.calls :
                    /\ k < Len(hr.calls) => hr.calls[k].st # "pending"
                    /\ \A l \in DOMAIN hr.calls :
                          k < l => Rank(hr.calls[k].svc) <= Rank(hr.calls[l].svc)
               /\ hr.pc \notin Finished
                  => (Len(hr.calls) > 0 /\ hr.calls[Len(hr.calls)].st = "pending")
               /\ hr.pc \in Finished
                  => (Len(hr.calls) > 0 /\ hr.calls[Len(hr.calls)].st # "pending")
               /\ Len(hr.replies) = Cardinality(CallsTo(hr, "reply"))

\* two messages in flight at once, the second started while the first is
\* suspended at the Mail Sender
C5_Witness ==
    \E i, j \in Handlers :
        /\ i # j
        /\ h[i].kind = "event" /\ h[i].pc = "mail"
        /\ h[j].kind = "event" /\ h[j].pc = "genModel"

\* the step in which initialize() resolves and start_whatsapp_listener
\* returns its acknowledgment
Acknowledges(i) ==
    /\ InitializeSettles(i)
    /\ h'[i].pc = "returned"
    /\ h'[i].out = ListenerStartedPayload

C10_SequentialNoRetry ==
    \A i \in Handlers :
        LET hr == h[i]
        IN  /\ \A svc \in {"parserModel", "genModel", "mail"} :
                  Cardinality(CallsTo(hr, svc)) <= 1
            /\ \A k, l \in PipelineCalls(hr) :
                  k < l => /\ Rank(hr.calls[k].svc) < Rank(hr.calls[l].svc)
                           /\ hr.calls[k].st = "ok"
            /\ CallsTo(hr, "mail") # {}
               => (hr.gen.set /\ \E k \in CallsTo(hr, "genModel") : hr.calls[k].st = "ok")
            /\ Len(hr.mails) = Cardinality(CallsTo(hr, "mail"))

\* an inbound message parsed by the model, generated, and refused by the
\* Mail Sender: three calls, then only the reply
C10_Witness ==
    \E i \in Handlers :
        /\ h[i].kind = "event"
        /\ h[i].pc = "done"
        /\ Len(h[i].calls) = 4
        /\ h[i].calls[1].svc = "parserModel" /\ h[i].calls[1].st = "ok"
        /\ h[i].calls[2].svc = "genModel" /\ h[i].calls[2].st = "ok"
        /\ h[i].calls[3].svc = "mail" /\ h[i].calls[3].st = "rejected"
        /\ h[i].calls[4].svc = "reply"

---------------------------------------------------------------------------
(* Properties of parseWhatsAppMessage on its own *)

\* the members of a parsed Email Request
Pair(recipient, context) ==
    JObj(WithMember(WithMember(NoMembers, KeyRecipient, recipient),
                    KeyContext, context))

\* C7: for a message "<address>:<white space><text>" (possibly after other
\* words, possibly with more lines after the text) the parser returns the
\* address as recipient and the trimmed text as context without a model
\* call; the model is called only when the strict pattern does not match,
\* as for "<address>:" followed by nothing or by line breaks only.
C7_StrictFormNeedsNoModel ==
    pp.pc \in {"model", "done"}
    => /\ \A p \in Prefixes, a \in ValidAddresses, w \in WsRuns,
            t \in PlainTexts, z \in Tails :
            pp.msg = p \o a \o <<":">> \o w \o t \o z
            => /\ pp.pc = "done"
               /\ pp.calls = 0
               /\ ~pp.result.threw
               /\ pp.result.val = Pair(JStr(a), JStr(t))
       /\ \A p \in Prefixes, a \in ValidAddresses, n \in NewlineRuns :
            pp.msg = p \o a \o <<":">> \o n => pp.calls = 1
       /\ pp.calls > 0 => ~EmailRegexMatch(pp.msg).matched
       /\ EmailRegexMatch(pp.msg).matched => (pp.pc = "done" /\ pp.calls = 0)

\* "x a@b.co: hi yo" was parsed without the model
C7_Witness ==
    /\ pp.pc = "done"
    /\ pp.msg = <<"x", " ">> \o Addr \o <<":", " ">> \o <<"h","i"," ","y","o">>
    /\ pp.calls = 0
    /\ pp.result.val = Pair(JStr(Addr), JStr(<<"h","i"," ","y","o">>))

\* C8: in the fallback path every failure becomes the 'no match' result and
\* nothing propagates out of the parser: a rejected model call, an answer
\* that is not valid JSON, and a JSON value (null included) without the
\* recipient or without the context all give null; an Email Request is
\* returned only for a JSON object that carries both members.
C8_FallbackFailuresAreNoMatch ==
    (pp.pc = "done" /\ pp.calls = 1)
    => /\ ~pp.result.threw
       /\ ~pp.settled.ok => pp.result.val = JNull
       /\ pp.settled.ok
          => /\ pp.settled.value \in DamagedTexts => pp.result.val = JNull
             /\ pp.settled.value \in OtherValueTexts => pp.result.val = JNull
             /\ \A v \in OptionalValueTokens :
                   pp.settled.value \in {ObjectText(v, <<>>), ObjectText(<<>>, v)}
                   => pp.result.val = JNull
             /\ pp.settled.value
                   = ObjectText(<<Tok("str", Addr)>>, <<Tok("str", Hi)>>)
                => pp.result.val = Pair(JStr(Addr), JStr(Hi))
             /\ pp.result.val # JNull
                => /\ \E r \in ValueTokens, c \in ValueTokens :
                        pp.settled.value = ObjectText(r, c)
                   /\ pp.result.val.k = "obj"
                   /\ {KeyRecipient, KeyContext} \subseteq DOMAIN pp.result.val.m

\* the model answered the JSON text null and the parser returned null
C8_Witness ==
    /\ pp.pc = "done"
    /\ pp.calls = 1
    /\ pp.settled.ok
    /\ pp.settled.value = <<P("null")>>
    /\ ~pp.result.threw
    /\ pp.result.val = JNull

---------------------------------------------------------------------------
(* Properties of generateEmailContent on its own *)

\* C6: when its model call succeeds, the Content Generator returns a
\* subject that is not empty, for every model answer and every context.
C6_SubjectNeverEmpty ==
    (gp.pc = "done" /\ gp.settled.ok)
    => (~gp.result.threw /\ gp.result.subject # <<>>)

=============================================================================
